---------------------------- MODULE Spec2Model ----------------------------
(***************************************************************************)
(* Model of fetch_sep/opsep/batch_run_opsep.py: the manifest reader        *)
(* read_sep_dates, the combination discovery and list-file creation of     *)
(* initialize_files, and the aggregation pass write_sep_lists.             *)
(*                                                                         *)
(* Text is modelled as TLA+ strings (character i of s is SubSeq(s,i,i)),   *)
(* list files as the full text written to them, and JSON values as tagged  *)
(* records so that Python's == (10 == 10.0) and str() (str(10) = "10",     *)
(* str(10.0) = "10.0") are both computed as Python computes them.          *)
(***************************************************************************)
EXTENDS Integers, Sequences, FiniteSets, TLC

VARIABLES
    fs,        \* the list directory: path -> text of the file
    combos,    \* the combination list the orchestrator holds (initialize_files' return)
    doc,       \* the document of the last initialize_files / write_sep_lists call
    op,        \* the last operation: "none", "init", "write", "rename"
    pre,       \* fs as it was before the last operation
    err,       \* the error the last operation raised ("" when it returned normally)
    nops,      \* operations performed so far
    manifest,  \* the rows of the manifest file last handed to read_sep_dates
    readres    \* what read_sep_dates did with it

vars == <<fs, combos, doc, op, pre, err, nops, manifest, readres>>

-----------------------------------------------------------------------------
(* Bounds of the model *)

MaxOps == 3

MaxManifestRows == 2

-----------------------------------------------------------------------------
(* Text helpers *)

Char(s, i) == SubSeq(s, i, i)

\* The characters the model's inputs use, in code-point order.
AsciiOrder == "\t\n #,-./0123456789:>ABCDEFGHIJKLMNOPQRSTUVWXYZ[]_abcdefghijklmnopqrstuvwxyz"

Ord(c) == CHOOSE i \in 1..Len(AsciiOrder) : Char(AsciiOrder, i) = c

IsDigit(c) == c \in {"0", "1", "2", "3", "4", "5", "6", "7", "8", "9"}

DigitVal(c) == Ord(c) - Ord("0")

IsSpace(c) == c \in {" ", "\t", "\n"}

\* Python's s[a:b] for 0 <= a <= b (0-based, b exclusive, clipped to the string)
Slice(s, a, b) ==
    LET e == IF b > Len(s) THEN Len(s) ELSE b
    IN IF a >= e THEN "" ELSE SubSeq(s, a + 1, e)

RECURSIVE LStrip(_)
LStrip(s) ==
    IF s = "" THEN ""
    ELSE IF IsSpace(Char(s, 1)) THEN LStrip(SubSeq(s, 2, Len(s))) ELSE s

RECURSIVE RStrip(_)
RStrip(s) ==
    IF s = "" THEN ""
    ELSE IF IsSpace(Char(s, Len(s))) THEN RStrip(SubSeq(s, 1, Len(s) - 1)) ELSE s

\* str.strip()
Strip(s) == RStrip(LStrip(s))

\* Python's a < b on str: by code point, a proper prefix first
RECURSIVE StrLess(_, _)
StrLess(a, b) ==
    IF b = "" THEN FALSE
    ELSE IF a = "" THEN TRUE
    ELSE IF Char(a, 1) = Char(b, 1)
         THEN StrLess(SubSeq(a, 2, Len(a)), SubSeq(b, 2, Len(b)))
         ELSE Ord(Char(a, 1)) < Ord(Char(b, 1))

\* the positions of character c in s
Positions(s, c) == {i \in 1..Len(s) : Char(s, i) = c}

\* the number of occurrences of character c in s
CountChar(s, c) == Cardinality(Positions(s, c))

\* s.split(c)
Split(s, c) ==
    LET pos == Positions(s, c)
        Nth(k) == CHOOSE q \in pos : Cardinality({r \in pos : r < q}) = k - 1
    IN [k \in 1..(Cardinality(pos) + 1) |->
            SubSeq(s, IF k = 1 THEN 1 ELSE Nth(k - 1) + 1,
                      IF k = Cardinality(pos) + 1 THEN Len(s) ELSE Nth(k) - 1)]

IsPrefix(a, b) == Len(a) <= Len(b) /\ SubSeq(b, 1, Len(a)) = a

\* '{:02d}'.format(n) for n >= 0
Pad2(n) == IF n < 10 THEN "0" \o ToString(n) ELSE ToString(n)

\* '{:04d}'.format(n) for n >= 0
Pad4(n) ==
    IF n < 10 THEN "000" \o ToString(n)
    ELSE IF n < 100 THEN "00" \o ToString(n)
    ELSE IF n < 1000 THEN "0" \o ToString(n)
    ELSE ToString(n)

-----------------------------------------------------------------------------
(* Python values as the JSON handler hands them over.  k is the type, n the  *)
(* number in thousandths (int, float) or the date yyyymmdd (datetime), s the *)
(* text (str) or the time of day (datetime).                                 *)

PyInt(i) == [k |-> "int", n |-> i * 1000, s |-> ""]

PyFloat(thousandths) == [k |-> "float", n |-> thousandths, s |-> ""]

PyString(s) == [k |-> "str", n |-> 0, s |-> s]

PyNone == [k |-> "none", n |-> 0, s |-> ""]

PyDatetime(y, mo, d, H, M, S) ==
    [k |-> "time", n |-> (y * 100 + mo) * 100 + d,
     s |-> Pad2(H) \o ":" \o Pad2(M) \o ":" \o Pad2(S)]

IsNumber(v) == v.k \in {"int", "float"}

\* Python's a == b: numbers compare by value whatever their type
PyEq(a, b) == IF IsNumber(a) /\ IsNumber(b) THEN a.n = b.n ELSE a = b

Year(v) == v.n \div 10000

Month(v) == (v.n \div 100) % 100

Day(v) == v.n % 100

\* the digits after the point in repr(float): at least one, no trailing zero
FracDigits(f) ==
    IF f = 0 THEN "0"
    ELSE IF f % 100 = 0 THEN ToString(f \div 100)
    ELSE IF f % 10 = 0 THEN Pad2(f \div 10)
    ELSE (IF f < 100 THEN "0" ELSE "") \o Pad2(f)

\* Python's str(v)
Str(v) ==
    CASE v.k = "int" -> ToString(v.n \div 1000)
      [] v.k = "float" ->
            LET a == IF v.n < 0 THEN 0 - v.n ELSE v.n
            IN (IF v.n < 0 THEN "-" ELSE "") \o ToString(a \div 1000) \o "."
               \o FracDigits(a % 1000)
      [] v.k = "str" -> v.s
      [] v.k = "none" -> "None"
      [] v.k = "time" ->
            Pad4(Year(v)) \o "-" \o Pad2(Month(v)) \o "-" \o Pad2(Day(v)) \o " " \o v.s

\* cfg.errval, the JSON handler's "not found" value
errval == "Value Not Found"

ErrVal == PyString(errval)

\* cfg.listpath + "/opsep"
listpath == "lists/opsep"

-----------------------------------------------------------------------------
(* The JSON document and its accessors (fetch_sep/json/ccmc_json_handler).   *)
(* A document is [short_name, options, blocks]; a block is                   *)
(* [energy_channel |-> [min, max], event_lengths |-> entries with the seven  *)
(* extracted quantities, fluence_spectra, threshold_crossings, probabilities *)
(* |-> the threshold of each element].                                       *)

return_nforecasts(data) == Len(data.blocks)

\* return_json_value_by_index(data, keys.id_energy_channel, i)
EnergyChannelAt(data, i) == data.blocks[i].energy_channel

\* return_json_value_by_index(data, keys.id_energy_min, i)
EnergyMinAt(data, i) == data.blocks[i].energy_channel.min

\* return_json_value_by_index(data, keys.id_energy_max, i)
EnergyMaxAt(data, i) == data.blocks[i].energy_channel.max

\* return_json_value_by_index(data, thresh_ids[j], i): the thresholds of the
\* elements of array array_ids[j] of block i, in order
ThresholdsAt(data, j, i) ==
    CASE j = 1 -> [k \in 1..Len(data.blocks[i].event_lengths) |->
                      data.blocks[i].event_lengths[k].threshold]
      [] j = 2 -> data.blocks[i].fluence_spectra
      [] j = 3 -> data.blocks[i].threshold_crossings
      [] j = 4 -> data.blocks[i].probabilities

\* the (block, element) places of the event-length entries of this channel and threshold
MatchingEntries(data, energy_channel, thresh) ==
    {p \in UNION {{<<i, k>> : k \in 1..Len(data.blocks[i].event_lengths)} :
                     i \in 1..Len(data.blocks)} :
        LET i == p[1]
            k == p[2]
        IN
        /\ PyEq(data.blocks[i].energy_channel.min, energy_channel.min)
        /\ PyEq(data.blocks[i].energy_channel.max, energy_channel.max)
        /\ PyEq(data.blocks[i].event_lengths[k].threshold, thresh)}

\* return_json_value_by_threshold(data, key, energy_channel, thresh): the value
\* of the first entry of that channel and threshold, errval when there is none
return_json_value_by_threshold(data, key, energy_channel, thresh) ==
    LET found == MatchingEntries(data, energy_channel, thresh)
    IN IF found = {} THEN ErrVal
       ELSE LET first == CHOOSE p \in found : \A q \in found :
                             p[1] < q[1] \/ (p[1] = q[1] /\ p[2] <= q[2])
            IN data.blocks[first[1]].event_lengths[first[2]][key]

-----------------------------------------------------------------------------
(* The list directory *)

isfile(files, path) == path \in DOMAIN files

\* open(path, 'w+'); write(text); close(): the file holds text and nothing else
WriteNew(files, path, text) ==
    [p \in DOMAIN files \cup {path} |-> IF p = path THEN text ELSE files[p]]

\* AppendTo with the file opened 'w' instead of 'a'
AppendToTruncating(files, path, text) ==
    [p \in DOMAIN files \cup {path} |-> IF p = path THEN text ELSE files[p]]

\* open(path, 'a'); write(text); close()
AppendTo(files, path, text) ==
    [p \in DOMAIN files \cup {path} |->
        IF p = path THEN (IF path \in DOMAIN files THEN files[path] ELSE "") \o text
        ELSE files[p]]

-----------------------------------------------------------------------------
(* initialize_files *)

\* thresh != cfg.errval
ThreshFound(thresh) == ~PyEq(thresh, ErrVal)

\* combo == other, on dictionaries
ComboEq(a, b) ==
    /\ PyEq(a.energy_channel.min, b.energy_channel.min)
    /\ PyEq(a.energy_channel.max, b.energy_channel.max)
    /\ PyEq(a.threshold, b.threshold)

\* ComboIn without the membership test
ComboInNever(combo, cs) == FALSE

\* combo in combos
ComboIn(combo, cs) == \E n \in 1..Len(cs) : ComboEq(combo, cs[n])

\* for k in range(len(sub_dict)): ...
RECURSIVE ScanElements(_, _, _, _, _)
ScanElements(data, i, j, k, cs) ==
    IF k > Len(ThresholdsAt(data, j, i)) THEN cs
    ELSE LET thresh == ThresholdsAt(data, j, i)[k]
             combo == [energy_channel |-> EnergyChannelAt(data, i), threshold |-> thresh]
         IN ScanElements(data, i, j, k + 1,
                IF ThreshFound(thresh) /\ ~ComboIn(combo, cs) THEN Append(cs, combo) ELSE cs)

\* array_ids / thresh_ids: event_lengths, fluence_spectra, threshold_crossings, probabilities
NArrayIds == 4

\* ScanArrays with the probabilities left out of array_ids
RECURSIVE ScanArraysNoProbabilities(_, _, _, _)
ScanArraysNoProbabilities(data, i, j, cs) ==
    IF j > NArrayIds - 1 THEN cs
    ELSE ScanArraysNoProbabilities(data, i, j + 1, ScanElements(data, i, j, 1, cs))

\* for j in range(len(array_ids)): ...
RECURSIVE ScanArrays(_, _, _, _)
ScanArrays(data, i, j, cs) ==
    IF j > NArrayIds THEN cs
    ELSE ScanArrays(data, i, j + 1, ScanElements(data, i, j, 1, cs))

\* for i in range(nblocks): ...
RECURSIVE ScanBlocks(_, _, _)
ScanBlocks(data, i, cs) ==
    IF i > return_nforecasts(data) THEN cs
    ELSE ScanBlocks(data, i + 1, ScanArrays(data, i, 1, cs))

\* combos as the first loop of initialize_files leaves it
DiscoverCombos(data) == ScanBlocks(data, 1, <<>>)

HeaderColumns ==
    "#Experiment,SEP Date,Start Time,End Time,Onset Peak Flux,Onset Peak Time,Max Flux,Max Flux Time,Channel Fluence "

\* threshfile of initialize_files
InitThreshFile(energy_min, energy_max, thresh) ==
    IF PyEq(energy_max, PyInt(-1))
    THEN listpath \o "/" \o "sep_list_" \o Str(energy_min) \o "MeV_" \o Str(thresh) \o "pfu.csv"
    ELSE listpath \o "/" \o "sep_list_" \o Str(energy_min) \o "-" \o Str(energy_max)
         \o "MeV_" \o Str(thresh) \o "dpfu.csv"

\* bin_def of initialize_files
InitBinDef(energy_min, energy_max) ==
    IF PyEq(energy_max, PyInt(-1))
    THEN ">" \o Str(energy_min) \o " MeV [cm-2 sr-1]"
    ELSE Str(energy_min) \o "-" \o Str(energy_max) \o " MeV [MeV-1 cm-2 sr-1]"

\* fin = open(threshfile,'w+'); fin.write(header); fin.write('\n'); fin.close()
InitCreate(files, threshfile, bin_def) ==
    WriteNew(files, threshfile, HeaderColumns \o bin_def \o "\n")

\* for i in range(nthresh): create the file of combos[i]
RECURSIVE InitFiles(_, _, _)
InitFiles(cs, i, files) ==
    IF i > Len(cs) THEN files
    ELSE LET energy_min == cs[i].energy_channel.min
             energy_max == cs[i].energy_channel.max
             thresh == cs[i].threshold
         IN InitFiles(cs, i + 1,
                InitCreate(files, InitThreshFile(energy_min, energy_max, thresh),
                           InitBinDef(energy_min, energy_max)))

\* initialize_files(jsonfname): the combos returned and the directory left behind
initialize_files(data, files) ==
    LET cs == DiscoverCombos(data)
    IN [combos |-> cs, files |-> InitFiles(cs, 1, files)]

-----------------------------------------------------------------------------
(* write_sep_lists *)

\* insert x into the sorted sequence seq, after the elements that are not greater
RECURSIVE InsertSorted(_, _)
InsertSorted(seq, x) ==
    IF seq = <<>> THEN <<x>>
    ELSE IF StrLess(x, Head(seq)) THEN <<x>> \o seq
    ELSE <<Head(seq)>> \o InsertSorted(Tail(seq), x)

\* sorted that leaves the list as it is
sortedNot(seq) == seq

\* sorted(options)
RECURSIVE sorted(_)
sorted(seq) ==
    IF seq = <<>> THEN <<>> ELSE InsertSorted(sorted(SubSeq(seq, 1, Len(seq) - 1)), seq[Len(seq)])

\* for opt in options: skip the blank ones, append "_" + the stripped option
RECURSIVE AppendOptions(_, _)
AppendOptions(exp_name, options) ==
    IF options = <<>> THEN exp_name
    ELSE LET opt == Head(options)
         IN AppendOptions(IF Strip(LStrip(opt)) = "" THEN exp_name
                          ELSE exp_name \o "_" \o Strip(LStrip(opt)),
                          Tail(options))

\* exp_name of write_sep_lists: the short name, qualified when options is a list
ExpName(data) ==
    IF data.options.list THEN AppendOptions(data.short_name, sorted(data.options.items))
    ELSE data.short_name

\* ChannelDiffers that lets every block pass
ChannelDiffersNever(a, b) == FALSE

\* combos[j]['energy_channel'] != energy_channel
ChannelDiffers(a, b) == ~(PyEq(a.min, b.min) /\ PyEq(a.max, b.max))

\* threshfile of write_sep_lists
WriteThreshFile(energy_min, energy_max, thresh) ==
    IF PyEq(energy_max, PyInt(-1))
    THEN listpath \o "/" \o "sep_list_" \o Str(energy_min) \o "MeV_" \o Str(thresh) \o "pfu.csv"
    ELSE listpath \o "/" \o "sep_list_" \o Str(energy_min) \o "-" \o Str(energy_max)
         \o "MeV_" \o Str(thresh) \o "dpfu.csv"

\* bin_def of write_sep_lists
WriteBinDef(energy_min, energy_max) ==
    IF ~PyEq(energy_max, PyInt(-1))
    THEN Str(energy_min) \o "-" \o Str(energy_max) \o " MeV [MeV-1 cm-2 sr-1]"
    ELSE ">" \o Str(energy_min) \o " MeV [cm-2 sr-1]"

\* EnsureFile without the test of isgood
EnsureFileAlways(files, threshfile, bin_def) ==
    WriteNew(files, threshfile, HeaderColumns \o bin_def \o "\n")

\* isgood = os.path.isfile(threshfile); if not isgood: create the file with its header
EnsureFile(files, threshfile, bin_def) ==
    IF ~isfile(files, threshfile)
    THEN WriteNew(files, threshfile, HeaderColumns \o bin_def \o "\n")
    ELSE files

\* NoSepEvent that only knows cfg.errval
NoSepEventErrvalOnly(start_time) == PyEq(start_time, ErrVal)

\* start_time == '' or start_time == None or start_time == cfg.errval
NoSepEvent(start_time) ==
    PyEq(start_time, PyString("")) \/ PyEq(start_time, PyNone) \/ PyEq(start_time, ErrVal)

\* '{0:d}-{1:02d}-{2:02d}'.format(sep_year, sep_month, sep_day)
SepDate(start_time) ==
    ToString(Year(start_time)) \o "-" \o Pad2(Month(start_time)) \o "-" \o Pad2(Day(start_time))

\* RowText with the end time written before the start time
RowTextEndFirst(data, exp_name, energy_channel, thresh, start_time) ==
    LET Q(key) == Str(return_json_value_by_threshold(data, key, energy_channel, thresh))
    IN exp_name \o "," \o SepDate(start_time) \o "," \o Q("end_time") \o ","
       \o Str(start_time) \o "," \o Q("peak_intensity") \o "," \o Q("peak_intensity_time")
       \o "," \o Q("peak_intensity_max") \o "," \o Q("peak_intensity_max_time") \o ","
       \o Q("fluence") \o "\n"

\* the text the nine fin.write calls and the final fin.write('\n') append
RowText(data, exp_name, energy_channel, thresh, start_time) ==
    LET end_time == return_json_value_by_threshold(data, "end_time", energy_channel, thresh)
        onset_peak == return_json_value_by_threshold(data, "peak_intensity", energy_channel, thresh)
        onset_peak_time ==
            return_json_value_by_threshold(data, "peak_intensity_time", energy_channel, thresh)
        max_flux ==
            return_json_value_by_threshold(data, "peak_intensity_max", energy_channel, thresh)
        max_flux_time ==
            return_json_value_by_threshold(data, "peak_intensity_max_time", energy_channel, thresh)
        fluence == return_json_value_by_threshold(data, "fluence", energy_channel, thresh)
    IN exp_name \o "," \o SepDate(start_time) \o "," \o Str(start_time) \o ","
       \o Str(end_time) \o "," \o Str(onset_peak) \o "," \o Str(onset_peak_time) \o ","
       \o Str(max_flux) \o "," \o Str(max_flux_time) \o "," \o Str(fluence) \o "\n"

\* the body of "for j in range(len(combos))" for block i and combos[j]; st is
\* [files, err], and a raised error ends the pass with the files as they are
WriteCombo(data, cs, exp_name, i, j, st) ==
    LET energy_min == EnergyMinAt(data, i)
        energy_max == EnergyMaxAt(data, i)
        energy_channel == EnergyChannelAt(data, i)
    IN IF ChannelDiffers(cs[j].energy_channel, energy_channel) THEN st
       ELSE LET thresh == cs[j].threshold
                threshfile == WriteThreshFile(energy_min, energy_max, thresh)
                ensured == EnsureFile(st.files, threshfile, WriteBinDef(energy_min, energy_max))
                start_time == return_json_value_by_threshold(data, "start_time",
                                                             energy_channel, thresh)
            IN IF NoSepEvent(start_time) THEN [files |-> ensured, err |-> ""]
               ELSE IF start_time.k # "time"
                    THEN [files |-> ensured, err |-> "AttributeError"]
                    ELSE [files |-> AppendTo(ensured, threshfile,
                                       RowText(data, exp_name, energy_channel, thresh, start_time)),
                          err |-> ""]

\* for j in range(len(combos)): ...
RECURSIVE WriteCombos(_, _, _, _, _, _)
WriteCombos(data, cs, exp_name, i, j, st) ==
    IF j > Len(cs) \/ st.err # "" THEN st
    ELSE WriteCombos(data, cs, exp_name, i, j + 1, WriteCombo(data, cs, exp_name, i, j, st))

\* for i in range(nblocks): ...
RECURSIVE WriteBlocks(_, _, _, _, _)
WriteBlocks(data, cs, exp_name, i, st) ==
    IF i > return_nforecasts(data) \/ st.err # "" THEN st
    ELSE WriteBlocks(data, cs, exp_name, i + 1, WriteCombos(data, cs, exp_name, i, 1, st))

\* write_sep_lists(jsonfname, combos): the directory left behind and the error raised
write_sep_lists(data, cs, files) ==
    WriteBlocks(data, cs, ExpName(data), 1, [files |-> files, err |-> ""])

-----------------------------------------------------------------------------
(* read_sep_dates.  The manifest is the rows csv.reader yields, each a list  *)
(* of strings.                                                               *)

\* the number of digits s has from position pos (1-based) on
RECURSIVE DigitRun(_, _)
DigitRun(s, pos) ==
    IF pos > Len(s) \/ ~IsDigit(Char(s, pos)) THEN 0 ELSE 1 + DigitRun(s, pos + 1)

\* the number written by the len digits of s from position pos
RECURSIVE NumAt(_, _, _)
NumAt(s, pos, len) ==
    IF len = 0 THEN 0
    ELSE 10 * NumAt(s, pos, len - 1) + DigitVal(Char(s, pos + len - 1))

\* the whitespace s has from position pos on
RECURSIVE SpaceRun(_, _)
SpaceRun(s, pos) ==
    IF pos > Len(s) \/ ~IsSpace(Char(s, pos)) THEN 0 ELSE 1 + SpaceRun(s, pos + 1)

IsLeap(y) == (y % 4 = 0 /\ y % 100 # 0) \/ y % 400 = 0

DaysInMonth(y, mo) ==
    IF mo = 2 THEN (IF IsLeap(y) THEN 29 ELSE 28)
    ELSE IF mo \in {4, 6, 9, 11} THEN 30 ELSE 31

\* a directive of one or two digits (%m, %d, %H, %M, %S) at pos: the digits
\* there must be the whole field, one digit or two, and in the range lo..hi
\* (a single digit of %m and %d may not be 0)
Field(s, pos, lo, hi) ==
    LET len == DigitRun(s, pos)
        v == NumAt(s, pos, len)
    IN [ok |-> len \in {1, 2} /\ v >= lo /\ v <= hi, v |-> v, next |-> pos + len]

Literal(s, pos, c) == pos <= Len(s) /\ Char(s, pos) = c

StrptimeFailed == [ok |-> FALSE, value |-> PyNone]

\* the directives of "%Y-%m-%d" and of "%Y-%m-%d %H:%M:%S"
DateFormat == <<"Y", "-", "m", "-", "d">>

DateTimeFormat == DateFormat \o <<" ", "H", ":", "M", ":", "S">>

\* the range of a one-or-two-digit directive
FieldRange(dv) ==
    IF dv = "m" THEN <<1, 12>>
    ELSE IF dv = "d" THEN <<1, 31>>
    ELSE IF dv = "H" THEN <<0, 23>>
    ELSE IF dv = "M" THEN <<0, 59>>
    ELSE <<0, 61>>

\* the datetime of the values found, year first; the constructor raises
\* ValueError on a day the month does not have and on a second above 59
MakeDatetime(got) ==
    LET g == got \o <<0, 0, 0>>
    IN IF g[1] < 1 \/ g[3] > DaysInMonth(g[1], g[2]) \/ g[6] > 59 THEN StrptimeFailed
       ELSE [ok |-> TRUE, value |-> PyDatetime(g[1], g[2], g[3], g[4], g[5], g[6])]

\* the match of the directives fmt against s from position pos on; got holds
\* the values found so far
RECURSIVE StrptimeFrom(_, _, _, _)
StrptimeFrom(s, pos, fmt, got) ==
    IF fmt = <<>>
    THEN (IF pos = Len(s) + 1 THEN MakeDatetime(got) ELSE StrptimeFailed)
    ELSE IF Head(fmt) = " "
    THEN (IF SpaceRun(s, pos) = 0 THEN StrptimeFailed
          ELSE StrptimeFrom(s, pos + SpaceRun(s, pos), Tail(fmt), got))
    ELSE IF Head(fmt) \in {"-", ":"}
    THEN (IF Literal(s, pos, Head(fmt)) THEN StrptimeFrom(s, pos + 1, Tail(fmt), got)
          ELSE StrptimeFailed)
    ELSE IF Head(fmt) = "Y"
    THEN (IF DigitRun(s, pos) < 4 THEN StrptimeFailed
          ELSE StrptimeFrom(s, pos + 4, Tail(fmt), Append(got, NumAt(s, pos, 4))))
    ELSE (IF Field(s, pos, FieldRange(Head(fmt))[1], FieldRange(Head(fmt))[2]).ok
          THEN StrptimeFrom(s, pos + DigitRun(s, pos), Tail(fmt),
                            Append(got, NumAt(s, pos, DigitRun(s, pos))))
          ELSE StrptimeFailed)

\* datetime.datetime.strptime(s, "%Y-%m-%d"): ok is FALSE where it raises ValueError
StrptimeDate(s) == StrptimeFrom(s, 1, DateFormat, <<>>)

\* datetime.datetime.strptime(s, "%Y-%m-%d %H:%M:%S")
StrptimeDateTime(s) == StrptimeFrom(s, 1, DateTimeFormat, <<>>)

\* a local variable that has not been assigned
Unbound == [k |-> "unbound", n |-> 0, s |-> ""]

\* the two "if len(field) > 10 / == 10" statements on a date field: the
\* variable afterwards, and whether strptime raised
ParseDateField(field, current) ==
    IF Len(field) > 10
    THEN LET r == StrptimeDateTime(Slice(field, 0, 19))
         IN [raised |-> ~r.ok, value |-> IF r.ok THEN r.value ELSE current]
    ELSE IF Len(field) = 10
    THEN LET r == StrptimeDate(Slice(field, 0, 10))
         IN [raised |-> ~r.ok, value |-> IF r.ok THEN r.value ELSE current]
    ELSE [raised |-> FALSE, value |-> current]

\* row[n] (0-based) if len(row) > n else ''
Column(row, n) == IF Len(row) > n THEN row[n + 1] ELSE ""

\* '#' in row[0]
IsHeaderRow(row) == CountChar(row[1], "#") > 0

\* the user-file check that ends the loop body
UserRowExits(row) == row[2] = "user" /\ Len(row) < 7

EmptyLists ==
    [start_dates |-> <<>>, end_dates |-> <<>>, experiments |-> <<>>, flux_types |-> <<>>,
     flags |-> <<>>, model_names |-> <<>>, user_files |-> <<>>, json_types |-> <<>>,
     options |-> <<>>, bgstartdate |-> <<>>, bgenddate |-> <<>>]

\* the loop body for one row; st is [status, stdate, enddate, lists]
ReadRow(row, st) ==
    IF IsHeaderRow(row) THEN st
    ELSE LET sd == ParseDateField(row[1], st.stdate)
             ed == ParseDateField(row[2], st.enddate)
         IN IF sd.raised \/ ed.raised THEN [st EXCEPT !.status = "ValueError"]
            ELSE IF sd.value = Unbound \/ ed.value = Unbound
            THEN [st EXCEPT !.status = "UnboundLocalError"]
            ELSE LET l == st.lists
                     lists ==
                        [start_dates |-> Append(l.start_dates, Str(sd.value)),
                         end_dates |-> Append(l.end_dates, Str(ed.value)),
                         experiments |-> Append(l.experiments, row[3]),
                         flux_types |-> Append(l.flux_types, row[4]),
                         flags |-> Append(l.flags, Column(row, 4)),
                         model_names |-> Append(l.model_names, Column(row, 5)),
                         user_files |-> Append(l.user_files, Column(row, 6)),
                         options |-> Append(l.options, Column(row, 7)),
                         bgstartdate |-> Append(l.bgstartdate, Column(row, 8)),
                         bgenddate |-> Append(l.bgenddate, Column(row, 9)),
                         json_types |-> Append(l.json_types, Column(row, 10))]
                 IN [status |-> IF UserRowExits(row) THEN "SystemExit" ELSE st.status,
                     stdate |-> sd.value, enddate |-> ed.value, lists |-> lists]

\* for row in readCSV: ...; an exception or sys.exit ends the loop
RECURSIVE ReadRows(_, _, _)
ReadRows(rows, n, st) ==
    IF n > Len(rows) \/ st.status # "running" THEN st
    ELSE ReadRows(rows, n + 1, ReadRow(rows[n], st))

\* read_sep_dates(sep_filename): the lists returned, or the error that ended
\* it without a return value
read_sep_dates(rows) ==
    LET st == ReadRows(rows, 1, [status |-> "running", stdate |-> Unbound,
                                  enddate |-> Unbound, lists |-> EmptyLists])
    IN IF st.status = "running" THEN [status |-> "returned", lists |-> st.lists]
       ELSE [status |-> st.status, lists |-> EmptyLists]

-----------------------------------------------------------------------------
(* The documents the batch is run on *)

Channel(min, max) == [min |-> min, max |-> max]

\* >10 MeV, once with the bound as the JSON integer 10, once as the JSON float 10.0
Int10 == Channel(PyInt(10), PyInt(-1))

Float10 == Channel(PyFloat(10000), PyInt(-1))

\* >100 MeV
Int100 == Channel(PyInt(100), PyInt(-1))

\* 5-10 MeV, differential
Diff5to10 == Channel(PyInt(5), PyInt(10))

\* the threshold a channel is run with: 10 pfu, 1 pfu, 0.001 dpfu
ThresholdOf(channel) ==
    IF channel = Int100 THEN PyInt(1)
    ELSE IF channel = Diff5to10 THEN PyFloat(1)
    ELSE PyInt(10)

ValidStart == PyDatetime(2012, 5, 17, 1, 55, 0)

\* the start times a non-detection is reported with, and a detection
StartTimes == {ValidStart, ErrVal, PyString(""), PyNone}

\* an element of event_lengths with its quantities; quantities is "all" when
\* every quantity of a detected event is present, "nofluence" or "noonset"
\* when the fluence, or the onset peak and its time, are not found
EventEntry(thresh, start_time, quantities) ==
    LET detected == start_time.k = "time"
    IN [threshold |-> thresh,
        start_time |-> start_time,
        end_time |-> IF detected THEN PyDatetime(2012, 5, 20, 12, 0, 0) ELSE ErrVal,
        peak_intensity |->
            IF detected /\ quantities # "noonset" THEN PyFloat(25500) ELSE ErrVal,
        peak_intensity_time |->
            IF detected /\ quantities # "noonset" THEN PyDatetime(2012, 5, 17, 2, 30, 0)
            ELSE ErrVal,
        peak_intensity_max |-> IF detected THEN PyFloat(255000) ELSE ErrVal,
        peak_intensity_max_time |->
            IF detected THEN PyDatetime(2012, 5, 17, 4, 30, 0) ELSE ErrVal,
        fluence |-> IF detected /\ quantities # "nofluence" THEN PyFloat(1234500) ELSE ErrVal]

\* a block whose arrays carry the threshold as the layout says:
\*   "all"       every array has one element with the threshold
\*   "prob"      the probabilities also name the threshold 100, which no other array has
\*   "nothresh"  every array has one element, without a threshold
\*   "empty"     only event_lengths has an element
Block(channel, thresh, start_time, layout, quantities) ==
    [energy_channel |-> channel,
     event_lengths |->
        <<EventEntry(IF layout = "nothresh" THEN ErrVal ELSE thresh, start_time, quantities)>>,
     fluence_spectra |->
        CASE layout = "all" -> <<thresh>> [] layout = "nothresh" -> <<ErrVal>> [] OTHER -> <<>>,
     threshold_crossings |->
        CASE layout = "all" -> <<thresh>> [] layout = "nothresh" -> <<ErrVal>> [] OTHER -> <<>>,
     probabilities |->
        CASE layout = "all" -> <<thresh>>
          [] layout = "prob" -> <<thresh, PyInt(100)>>
          [] layout = "nothresh" -> <<ErrVal>>
          [] OTHER -> <<>>]

\* the usual block of a channel
PlainBlock(channel, start_time) ==
    Block(channel, ThresholdOf(channel), start_time, "all", "all")

\* options as the document has them: a list of strings, or not found
OptionList(items) == [list |-> TRUE, items |-> items]

NoOptions == [list |-> FALSE, items |-> <<>>]

Document(short_name, options, blocks) ==
    [short_name |-> short_name, options |-> options, blocks |-> blocks]

\* one block: every start time for >10 MeV, detection and non-detection for the others
OneBlockDocs ==
    {Document("GOES-15", NoOptions, <<PlainBlock(Int10, st)>>) : st \in StartTimes}
    \cup {Document("GOES-15", NoOptions, <<PlainBlock(ch, st)>>) :
            ch \in {Float10, Int100, Diff5to10}, st \in {ValidStart, ErrVal}}

\* one block whose arrays or quantities are irregular
IrregularDocs ==
    {Document("GOES-15", NoOptions, <<Block(Int10, PyInt(10), ValidStart, layout, "all")>>) :
        layout \in {"prob", "nothresh", "empty"}}
    \cup {Document("GOES-15", NoOptions, <<Block(Int10, PyInt(10), ValidStart, "all", q)>>) :
            q \in {"nofluence", "noonset"}}

\* two blocks: >10 MeV detected, with a second block of another or of the same channel
TwoBlockDocs ==
    {Document("GOES-15", options, <<PlainBlock(Int10, ValidStart), PlainBlock(Int100, ErrVal)>>) :
        options \in {NoOptions, OptionList(<<"S14">>)}}
    \cup {Document("GOES-15", NoOptions, <<PlainBlock(Int10, ValidStart), PlainBlock(ch, ValidStart)>>) :
            ch \in {Int100, Int10, Float10}}

\* the option lists and names a document may declare
OptionDocs ==
    {Document("GOES-15", OptionList(items), <<PlainBlock(Int10, ValidStart)>>) :
        items \in {<<"S14", "Bruno2017">>, <<"S14", " ", "S14">>, <<"a", " b">>, <<>>}}
    \cup {Document("SEPMOD, v2", NoOptions, <<PlainBlock(Int10, ValidStart)>>)}

Docs ==
    {Document("GOES-15", NoOptions, <<>>)}
    \cup OneBlockDocs \cup IrregularDocs \cup TwoBlockDocs \cup OptionDocs

-----------------------------------------------------------------------------
(* The batch: initialize_files and write_sep_lists on the documents opsep    *)
(* produces, and the user renaming a list away between runs.                 *)

NoFiles == [p \in {} |-> ""]

NotRead == [status |-> "none", lists |-> EmptyLists]

Init ==
    /\ fs = NoFiles
    /\ combos = <<>>
    /\ doc = Document("GOES-15", NoOptions, <<>>)
    /\ op = "none"
    /\ pre = NoFiles
    /\ err = ""
    /\ nops = 0
    /\ manifest = <<>>
    /\ readres = NotRead

\* combos = initialize_files(jsonfname)
InitializeFiles ==
    /\ nops < MaxOps
    /\ \E d \in Docs :
        LET r == initialize_files(d, fs)
        IN /\ fs' = r.files
           /\ combos' = r.combos
           /\ doc' = d
    /\ op' = "init"
    /\ pre' = fs
    /\ err' = ""
    /\ nops' = nops + 1
    /\ UNCHANGED <<manifest, readres>>

\* success = write_sep_lists(jsonfname, combos), with the combos of the batch
WriteSepLists ==
    /\ nops < MaxOps
    /\ op # "none"
    /\ \E d \in Docs :
        LET r == write_sep_lists(d, combos, fs)
        IN /\ fs' = r.files
           /\ err' = r.err
           /\ doc' = d
    /\ op' = "write"
    /\ pre' = fs
    /\ nops' = nops + 1
    /\ UNCHANGED <<combos, manifest, readres>>

\* the user renames one list so that the next run does not write over it
RenameList ==
    /\ nops < MaxOps
    /\ \E gone \in DOMAIN fs :
        fs' = [p \in DOMAIN fs \ {gone} |-> fs[p]]
    /\ op' = "rename"
    /\ pre' = fs
    /\ err' = ""
    /\ nops' = nops + 1
    /\ UNCHANGED <<combos, doc, manifest, readres>>

Next == InitializeFiles \/ WriteSepLists \/ RenameList

Spec == Init /\ [][Next]_vars

-----------------------------------------------------------------------------
(* The manifest reader on its own: read_sep_dates on the manifests a user    *)
(* may write.                                                                *)

ManifestRows ==
    { <<"2012-05-17", "2012-05-20", "GOES-13", "integral">>,
      <<"2012-03-07 02:00:00", "2012-03-12 12:00:00", "GOES-15", "integral", "TwoPeak">>,
      <<"2013-4-11", "2013-04-13", "GOES-13", "integral">>,
      <<"2013-05-22", "2013-5-25", "GOES-13", "integral">>,
      <<"2012/05/17", "2012-05-20", "GOES-13", "integral">>,
      <<"2012-02-30", "2012-03-02", "GOES-13", "integral">>,
      <<"#StartDate", "EndDate", "Experiment", "FluxType">>,
      <<"2014-01-06", "2014-01-10", "user", "integral", "", "MyModel", "flux.txt">>,
      <<"2014-02-25", "2014-03-01", "user", "integral">>,
      <<"2014-04-18", "2014-04-20", "user", "integral", "", " ", "">>,
      <<"2014-09-10", "user", "integral", "">> }

Manifests ==
    UNION {[1..n -> ManifestRows] : n \in 0..MaxManifestRows}

ReadSepDates ==
    /\ \E rows \in Manifests :
        /\ manifest' = rows
        /\ readres' = read_sep_dates(rows)
    /\ UNCHANGED <<fs, combos, doc, op, pre, err, nops>>

NextManifest == ReadSepDates

SpecManifest == Init /\ [][NextManifest]_vars

-----------------------------------------------------------------------------
(* What the list files hold, as a reader of them sees it *)

\* the header line of a list, without its line break
HeaderLine(text) == Split(text, "\n")[1]

\* the rows below the header line
RowCount(files, path) ==
    IF path \in DOMAIN files THEN CountChar(files[path], "\n") - 1 ELSE 0

\* the text the last operation added below what list p held before
AppendedText(p) ==
    LET old == IF p \in DOMAIN pre THEN pre[p] ELSE HeaderLine(fs[p]) \o "\n"
    IN SubSeq(fs[p], Len(old) + 1, Len(fs[p]))

\* the rows the last operation appended to list p
AppendedRows(p) ==
    LET lines == Split(AppendedText(p), "\n")
    IN SubSeq(lines, 1, Len(lines) - 1)

\* the sink of a combination as the file format names it
SinkPath(combo) ==
    LET c == combo.energy_channel
    IN IF c.max.n = -1000
       THEN "lists/opsep/sep_list_" \o Str(c.min) \o "MeV_" \o Str(combo.threshold) \o "pfu.csv"
       ELSE "lists/opsep/sep_list_" \o Str(c.min) \o "-" \o Str(c.max) \o "MeV_"
            \o Str(combo.threshold) \o "dpfu.csv"

\* the header line of a combination's sink as the file format gives it
SinkHeader(combo) ==
    LET c == combo.energy_channel
    IN "#Experiment,SEP Date,Start Time,End Time,Onset Peak Flux,Onset Peak Time,Max Flux,Max Flux Time,Channel Fluence "
       \o (IF c.max.n = -1000 THEN ">" \o Str(c.min) \o " MeV [cm-2 sr-1]"
           ELSE Str(c.min) \o "-" \o Str(c.max) \o " MeV [MeV-1 cm-2 sr-1]")

\* the start time the document reports for a combination
StartTimeOf(d, combo) ==
    return_json_value_by_threshold(d, "start_time", combo.energy_channel, combo.threshold)

\* the document has a block of the combination's channel
HasChannel(d, combo) ==
    \E i \in 1..Len(d.blocks) :
        /\ PyEq(d.blocks[i].energy_channel.min, combo.energy_channel.min)
        /\ PyEq(d.blocks[i].energy_channel.max, combo.energy_channel.max)

-----------------------------------------------------------------------------
(* C1 *)

\* C1, as claimed: neither initialize_files nor write_sep_lists writes to a
\* list that already exists other than by appending: every list of before the
\* call still starts with all the text it held, header and rows.
C1_ExistingSinkNeverRewritten ==
    op \in {"init", "write"} =>
        \A p \in DOMAIN pre : p \in DOMAIN fs /\ IsPrefix(pre[p], fs[p])

\* C1, amended: write_sep_lists leaves the header and every earlier row of an
\* existing list in place (its lazy creation writes nothing to it), while
\* initialize_files writes every returned combination's list anew: the header
\* line stays what it was, the rows appended earlier are gone, and the lists of
\* no returned combination are untouched.
C1_OnlyInitializeFilesRewrites ==
    /\ op = "write" =>
        \A p \in DOMAIN pre : p \in DOMAIN fs /\ IsPrefix(pre[p], fs[p])
    /\ op = "init" =>
        \A p \in DOMAIN pre :
            /\ p \in DOMAIN fs
            /\ IF \E n \in 1..Len(combos) : SinkPath(combos[n]) = p
               THEN fs[p] = HeaderLine(pre[p]) \o "\n"
               ELSE fs[p] = pre[p]

\* a write pass on a list that held rows, and an initialize_files on one
C1_Witness ==
    /\ op = "write"
    /\ \E p \in DOMAIN pre : RowCount(pre, p) >= 1 /\ RowCount(fs, p) = RowCount(pre, p) + 1

-----------------------------------------------------------------------------
(* C2 *)

\* C2: after a write pass, a combination of the list whose start time in the
\* document is errval, '' or None has as many rows in its sink as before the
\* pass, whichever block of its channel named the sink, and the pass raised
\* no error.
C2_SkipRule ==
    op = "write" =>
        \A n \in 1..Len(combos) :
            StartTimeOf(doc, combos[n]) \in {ErrVal, PyString(""), PyNone} =>
                /\ err = ""
                /\ RowCount(fs, SinkPath(combos[n])) = RowCount(pre, SinkPath(combos[n]))
                /\ \A i \in 1..Len(doc.blocks) :
                      LET named == SinkPath([energy_channel |-> doc.blocks[i].energy_channel,
                                             threshold |-> combos[n].threshold])
                      IN HasChannel(Document("", NoOptions, <<doc.blocks[i]>>), combos[n])
                            => RowCount(fs, named) = RowCount(pre, named)

\* a pass over a document that has the combination's channel and reports None
\* as its start time, on a sink that already held a row
C2_Witness ==
    /\ op = "write"
    /\ \E n \in 1..Len(combos) :
        /\ HasChannel(doc, combos[n])
        /\ StartTimeOf(doc, combos[n]) = PyNone
        /\ RowCount(pre, SinkPath(combos[n])) >= 1

-----------------------------------------------------------------------------
(* C3 *)

\* C3: the list initialize_files returns has no two entries equal in channel
\* min, channel max and threshold, and is empty for a document without blocks.
C3_DedupCorrectness ==
    op = "init" =>
        /\ \A a, b \in 1..Len(combos) :
              a # b => ~( /\ PyEq(combos[a].energy_channel.min, combos[b].energy_channel.min)
                          /\ PyEq(combos[a].energy_channel.max, combos[b].energy_channel.max)
                          /\ PyEq(combos[a].threshold, combos[b].threshold) )
        /\ Len(doc.blocks) = 0 => combos = <<>>

\* a document that names one pair in two blocks and in every array of each
C3_Witness ==
    /\ op = "init"
    /\ Len(doc.blocks) = 2
    /\ Len(doc.blocks[1].probabilities) = 1
    /\ Len(combos) = 1

-----------------------------------------------------------------------------
(* C4 *)

\* C4: every threshold other than errval of every element of the four arrays
\* of every block is in the returned list with that block's channel, and when
\* initialize_files returns, the sink of every returned pair exists.
C4_DiscoveryComplete ==
    op = "init" =>
        /\ \A i \in 1..Len(doc.blocks) :
              LET b == doc.blocks[i]
                  named ==
                      {b.event_lengths[k].threshold : k \in 1..Len(b.event_lengths)}
                      \cup {b.fluence_spectra[k] : k \in 1..Len(b.fluence_spectra)}
                      \cup {b.threshold_crossings[k] : k \in 1..Len(b.threshold_crossings)}
                      \cup {b.probabilities[k] : k \in 1..Len(b.probabilities)}
              IN \A t \in named \ {ErrVal} :
                    \E n \in 1..Len(combos) :
                        /\ PyEq(combos[n].energy_channel.min, b.energy_channel.min)
                        /\ PyEq(combos[n].energy_channel.max, b.energy_channel.max)
                        /\ PyEq(combos[n].threshold, t)
        /\ \A n \in 1..Len(combos) : SinkPath(combos[n]) \in DOMAIN fs

\* a pair that only a probability entry names is returned and has its sink
C4_Witness ==
    /\ op = "init"
    /\ \E n \in 1..Len(combos) :
        /\ combos[n].threshold = PyInt(100)
        /\ \A k \in 1..Len(doc.blocks[1].event_lengths) :
              doc.blocks[1].event_lengths[k].threshold # PyInt(100)
        /\ SinkPath(combos[n]) \in DOMAIN fs

-----------------------------------------------------------------------------
(* C5 *)

\* the document of the end-to-end scenario: >10 MeV at 10 pfu with a start
\* time, then >100 MeV at 1 pfu with errval as start time
IsEndToEndDoc(d) ==
    /\ Len(d.blocks) = 2
    /\ d.blocks[1].energy_channel.min.n = 10000 /\ d.blocks[1].energy_channel.max.n = -1000
    /\ Len(d.blocks[1].event_lengths) = 1
    /\ d.blocks[1].event_lengths[1].threshold.n = 10000
    /\ d.blocks[1].event_lengths[1].start_time.k = "time"
    /\ d.blocks[2].energy_channel.min.n = 100000 /\ d.blocks[2].energy_channel.max.n = -1000
    /\ Len(d.blocks[2].event_lengths) = 1
    /\ d.blocks[2].event_lengths[1].threshold.n = 1000
    /\ d.blocks[2].event_lengths[1].start_time = ErrVal

\* C5: initialize_files returns 2 combinations for the end-to-end document,
\* and a write pass over it with them leaves both sinks existing, the one of
\* >10 MeV with one row more than before the pass and the one of >100 MeV
\* with as many as before.
C5_EndToEnd ==
    /\ (op = "init" /\ IsEndToEndDoc(doc)) => Len(combos) = 2
    /\ (op = "write" /\ IsEndToEndDoc(doc) /\ combos = DiscoverCombos(doc)) =>
        /\ "lists/opsep/sep_list_10MeV_10pfu.csv" \in DOMAIN fs
        /\ "lists/opsep/sep_list_100MeV_1pfu.csv" \in DOMAIN fs
        /\ RowCount(fs, "lists/opsep/sep_list_10MeV_10pfu.csv")
              = RowCount(pre, "lists/opsep/sep_list_10MeV_10pfu.csv") + 1
        /\ RowCount(fs, "lists/opsep/sep_list_100MeV_1pfu.csv")
              = RowCount(pre, "lists/opsep/sep_list_100MeV_1pfu.csv")

\* the pass after initialize_files on the end-to-end document
C5_Witness ==
    /\ op = "write"
    /\ IsEndToEndDoc(doc)
    /\ combos = DiscoverCombos(doc)
    /\ nops = 2
    /\ RowCount(fs, "lists/opsep/sep_list_10MeV_10pfu.csv") = 1
    /\ RowCount(fs, "lists/opsep/sep_list_100MeV_1pfu.csv") = 0

-----------------------------------------------------------------------------
(* C6 *)

\* C6, as claimed: initialize_files leaves every returned combination's sink
\* at the path and with the header line the file format gives for it, and a
\* list that write_sep_lists creates is the sink of a combination of the list
\* it was given, at that same path and with that same header line.
C6_SameSinkBothPlaces ==
    /\ op = "init" =>
        \A n \in 1..Len(combos) :
            /\ SinkPath(combos[n]) \in DOMAIN fs
            /\ fs[SinkPath(combos[n])] = SinkHeader(combos[n]) \o "\n"
    /\ op = "write" =>
        \A p \in DOMAIN fs \ DOMAIN pre :
            \E n \in 1..Len(combos) :
                p = SinkPath(combos[n]) /\ HeaderLine(fs[p]) = SinkHeader(combos[n])

-----------------------------------------------------------------------------
(* C7 *)

\* the strings of a set joined in ascending order, each after an underscore
RECURSIVE JoinAscending(_)
JoinAscending(S) ==
    IF S = {} THEN ""
    ELSE LET least == CHOOSE x \in S : \A y \in S : ~StrLess(y, x)
         IN "_" \o least \o JoinAscending(S \ {least})

\* the source name as claimed: every distinct non-blank stripped option once,
\* in sorted order
ClaimedSourceName(d) ==
    IF d.options.list
    THEN d.short_name
         \o JoinAscending({Strip(d.options.items[i]) : i \in 1..Len(d.options.items)} \ {""})
    ELSE d.short_name

\* an ordering of the positions of items that is ascending in the items as declared
AscendingOrder(items) ==
    CHOOSE q \in [1..Len(items) -> 1..Len(items)] :
        /\ \A i, j \in 1..Len(items) : i # j => q[i] # q[j]
        /\ \A i, j \in 1..Len(items) : i < j => ~StrLess(items[q[j]], items[q[i]])

\* the stripped non-blank ones of items[q[k]], items[q[k+1]], ..., each after an underscore
RECURSIVE JoinInOrder(_, _, _)
JoinInOrder(items, q, k) ==
    IF k > Len(items) THEN ""
    ELSE (IF Strip(items[q[k]]) = "" THEN "" ELSE "_" \o Strip(items[q[k]]))
         \o JoinInOrder(items, q, k + 1)

\* the source name, amended: every occurrence of a non-blank option, stripped,
\* in the sorted order of the options as declared
SourceName(d) ==
    IF d.options.list
    THEN d.short_name \o JoinInOrder(d.options.items, AscendingOrder(d.options.items), 1)
    ELSE d.short_name

\* C7, as claimed: every row of a write pass starts with the base name
\* followed by each distinct non-blank stripped option once, in sorted order,
\* each after an underscore (the base name alone when options is no list).
C7_SortedDistinctOptions ==
    op = "write" =>
        \A p \in DOMAIN fs : \A k \in 1..Len(AppendedRows(p)) :
            IsPrefix(ClaimedSourceName(doc) \o ",", AppendedRows(p)[k])

\* C7, amended: every row of a write pass starts with the base name followed
\* by every non-blank option, stripped, once per occurrence and in the sorted
\* order of the options as declared (before stripping), each after an
\* underscore; the base name alone when options is no list.
C7_OptionQualifiedName ==
    op = "write" =>
        \A p \in DOMAIN fs : \A k \in 1..Len(AppendedRows(p)) :
            IsPrefix(SourceName(doc) \o ",", AppendedRows(p)[k])

\* a row written for a document that declares two options out of order
C7_Witness ==
    /\ op = "write"
    /\ doc.options = OptionList(<<"S14", "Bruno2017">>)
    /\ \E p \in DOMAIN fs : \E k \in 1..Len(AppendedRows(p)) :
          IsPrefix("GOES-15_Bruno2017_S14,", AppendedRows(p)[k])

-----------------------------------------------------------------------------
(* C8 *)

\* the nine fields of the row of an event-length entry, in the header's order
RowFields(name, e) ==
    <<name, Slice(Str(e.start_time), 0, 10), Str(e.start_time), Str(e.end_time),
      Str(e.peak_intensity), Str(e.peak_intensity_time), Str(e.peak_intensity_max),
      Str(e.peak_intensity_max_time), Str(e.fluence)>>

\* the event-length entries of a document that report a start time
DetectedEntries(d) ==
    {d.blocks[i].event_lengths[k] :
        <<i, k>> \in {q \in UNION {{<<i, k>> : k \in 1..Len(d.blocks[i].event_lengths)} :
                                     i \in 1..Len(d.blocks)} :
                        d.blocks[q[1]].event_lengths[q[2]].start_time.k = "time"}}

\* row is the nine fields of a detected entry of the document, and no more
IsRowOf(row, d) ==
    /\ Len(Split(row, ",")) = 9
    /\ \E e \in DetectedEntries(d) : Split(row, ",") = RowFields(SourceName(d), e)

\* what the last pass appended to list p ends with one line break per row
EndsEachRow(p) ==
    /\ AppendedText(p) # "" => Char(AppendedText(p), Len(AppendedText(p))) = "\n"
    /\ \A k \in 1..Len(AppendedRows(p)) : AppendedRows(p)[k] # ""

-----------------------------------------------------------------------------
(* C9 and C10, on SpecManifest *)

\* a row that does not begin with '#'
IsDataRow(row) == ~IsPrefix("#", row[1])

\* YYYY-MM-DD or YYYY-MM-DD HH:MM:SS
IsDateForm(s) ==
    LET Digits(a, b) == \A i \in a..b : IsDigit(Char(s, i))
    IN \/ /\ Len(s) = 10
          /\ Digits(1, 4) /\ Char(s, 5) = "-" /\ Digits(6, 7) /\ Char(s, 8) = "-" /\ Digits(9, 10)
       \/ /\ Len(s) = 19
          /\ Digits(1, 4) /\ Char(s, 5) = "-" /\ Digits(6, 7) /\ Char(s, 8) = "-" /\ Digits(9, 10)
          /\ Char(s, 11) = " " /\ Digits(12, 13) /\ Char(s, 14) = ":" /\ Digits(15, 16)
          /\ Char(s, 17) = ":" /\ Digits(18, 19)

\* the text of the datetime a well-formed date field stands for
DateText(s) == IF Len(s) = 10 THEN s \o " 00:00:00" ELSE s

\* C9: a manifest with a data row whose Experiment is 'user' and whose
\* ModelName or UserFilename is missing or blank is not read: read_sep_dates
\* ends fatally and returns no lists.
C9_UserRowsFatal ==
    (\E n \in 1..Len(manifest) :
        /\ IsDataRow(manifest[n])
        /\ manifest[n][3] = "user"
        /\ (Strip(Column(manifest[n], 5)) = "" \/ Strip(Column(manifest[n], 6)) = ""))
    => (readres.status # "returned" /\ readres.lists = EmptyLists)

\* C10: a manifest with a data row whose StartDate or EndDate is of neither
\* form is not read, and the dates read_sep_dates returns at position n are
\* those of the n-th data row's own first two fields.
C10_DatesParsedOrFatal ==
    /\ (\E n \in 1..Len(manifest) :
            /\ IsDataRow(manifest[n])
            /\ ~(IsDateForm(manifest[n][1]) /\ IsDateForm(manifest[n][2])))
       => (readres.status # "returned" /\ readres.lists = EmptyLists)
    /\ readres.status = "returned" =>
        LET rows == SelectSeq(manifest, IsDataRow)
        IN /\ Len(readres.lists.start_dates) = Len(rows)
           /\ Len(readres.lists.end_dates) = Len(rows)
           /\ \A n \in 1..Len(rows) :
                /\ IsDateForm(rows[n][1]) => readres.lists.start_dates[n] = DateText(rows[n][1])
                /\ IsDateForm(rows[n][2]) => readres.lists.end_dates[n] = DateText(rows[n][2])

-----------------------------------------------------------------------------
(* C11 *)

\* block i of the document has the channel of some entry of the combination list
KnownBlock(i) ==
    \E j \in 1..Len(combos) :
        /\ PyEq(combos[j].energy_channel.min, doc.blocks[i].energy_channel.min)
        /\ PyEq(combos[j].energy_channel.max, doc.blocks[i].energy_channel.max)

\* the paths that the blocks of a known channel name, each with the thresholds
\* of the combinations of its channel
KnownBlockPaths ==
    {WriteThreshFile(doc.blocks[i].energy_channel.min, doc.blocks[i].energy_channel.max,
                     combos[j].threshold) :
        <<i, j>> \in {q \in (1..Len(doc.blocks)) \X (1..Len(combos)) :
                        /\ PyEq(combos[q[2]].energy_channel.min,
                                doc.blocks[q[1]].energy_channel.min)
                        /\ PyEq(combos[q[2]].energy_channel.max,
                                doc.blocks[q[1]].energy_channel.max)}}

\* list p is as it was before the last operation: absent still, or the same text
Untouched(p) ==
    /\ p \in DOMAIN fs <=> p \in DOMAIN pre
    /\ p \in DOMAIN fs => fs[p] = pre[p]

\* what a write pass leaves: nothing is created or appended but at the paths
\* the blocks of a known channel name, a pass over a document with no block of
\* a known channel changes no list and raises no error, and the sink of a
\* combination whose channel no block has is untouched
C11_Frame ==
    /\ \A p \in (DOMAIN fs \cup DOMAIN pre) \ KnownBlockPaths : Untouched(p)
    /\ (\A i \in 1..Len(doc.blocks) : ~KnownBlock(i)) => (fs = pre /\ err = "")
    /\ \A j \in 1..Len(combos) : ~HasChannel(doc, combos[j]) => Untouched(SinkPath(combos[j]))

\* C11: a write_sep_lists pass leaves the combination list as it was given,
\* and a block whose channel is the channel of no combination creates no
\* file, appends no row and raises no error; the sink of a combination whose
\* channel no block of the document has is unchanged by the pass.
C11_UnknownCombination ==
    [][op' = "write" => (combos' = combos /\ C11_Frame')]_vars

\* a pass over a document whose only block has a channel of no combination,
\* while the sink of the one combination there is holds a row
C11_Witness ==
    /\ op = "write"
    /\ Len(doc.blocks) = 1
    /\ ~KnownBlock(1)
    /\ Len(combos) = 1
    /\ ~HasChannel(doc, combos[1])
    /\ RowCount(pre, SinkPath(combos[1])) = 1
    /\ fs = pre

-----------------------------------------------------------------------------
(* C12 *)

\* the rows list p gained in the last operation
RowsGained(p) == RowCount(fs, p) - RowCount(pre, p)

\* C12, as claimed: a write_sep_lists pass with a combination list returned by
\* initialize_files appends at most one row to any list, and the sink of each
\* combination gains one row when the document reports a start time for the
\* combination and none when it reports None, '' or errval, also when two
\* blocks of the document have the same energy channel.
C12_NoDoubleCounting ==
    op = "write" =>
        /\ \A p \in DOMAIN fs : RowsGained(p) <= 1
        /\ \A j \in 1..Len(combos) :
              RowsGained(SinkPath(combos[j]))
                = IF NoSepEvent(StartTimeOf(doc, combos[j])) THEN 0 ELSE 1

=============================================================================
